---------------------------- MODULE Spec2Model ----------------------------
(***************************************************************************)
(* A model of PhotoCampus' feed subsystem: the scorer, the fan-out tasks   *)
(* of posts/tasks.py, the FeedEntry table and the per-user ranked cache,   *)
(* and the home feed reader of posts/api.py.                               *)
(*                                                                         *)
(* Time is counted in whole days.  Scores are integers in units of 1/70 of *)
(* a point, so that 10*(1 - d/7) and e/10 are exact.                       *)
(***************************************************************************)
EXTENDS Integers, Sequences, FiniteSets, TLC

(***************************************************************************)
(* Bounds of the model.                                                    *)
(***************************************************************************)
NumUsers == 3
MaxPosts == 2
MaxFeedPosts == 4
MaxTasks == 2
MaxJitter == 1
MaxLikes == 3
MaxOps == 3
MaxFanoutOps == 2
ShortTick == 3
LongTick == 31
MaxNow == 32

(***************************************************************************)
(* Program constants.  The five size limits are scaled down so that their  *)
(* boundary cases occur with NumUsers users and a handful of posts; the    *)
(* source values are 1000, 100, 500, 100 and 5.                            *)
(***************************************************************************)
CelebrityThreshold == 2
ActiveLimit == 1
BatchSize == 2
CacheLimit == 2
InteractedLimit == 2
RecencyDays == 7
FeedWindowDays == 30
ScoreUnit == 70

Users == 1..NumUsers
PostIds == 1..MaxFeedPosts
\* One university and one company; 0 stands for a null foreign key.
University == 1
Company == 1
NoOrg == 0
Jitters == 0..MaxJitter
InteractionTypes == {"like", "comment", "share", "view"}

VARIABLES
    now,             \* timezone.now(), in days
    posts,           \* Post table: post id -> row
    follows,         \* Follow table: <<follower, followed>>
    memberships,     \* OrganizationMembership table
    university_admins, \* University.admins of the university
    likes,           \* Like table: <<user, post>>
    comments,        \* Comment table: <<author, post>>
    shares,          \* Share table: <<user, post>>
    feed_entries,    \* FeedEntry table
    celebrity_posts, \* CelebrityPostCache table: <<author, post>>
    cache,           \* the cache key user:feed:<id> of every user
    tasks,           \* _distribute_post_to_batch tasks waiting in the broker
    refreshing,      \* the user whose refresh_feed_for_user is between its
                     \* delete and its bulk_create, or 0
    outcome,         \* what the last task returned: "ok" or "error"
    response,        \* the response of the home_feed request being answered
    ops,             \* the number of task executions so far
    available,       \* the database and the cache answer
    universities,    \* University table: the ids of its rows
    workers,         \* the _distribute_post_to_batch execution of each
                     \* Celery worker process
    command          \* the rebuild_feeds command being run

\* The tables other parts of the application own.
social == <<follows, memberships, university_admins>>
engagement == <<likes, comments, shares>>

\* The platform the tasks run on, and the executions in progress.
platform == <<available, universities, workers, command>>

vars == <<now, posts, social, engagement, feed_entries, celebrity_posts, cache,
          tasks, refreshing, outcome, response, ops, platform>>

(***************************************************************************)
(* Helpers.                                                                *)
(***************************************************************************)
Min(a, b) == IF a <= b THEN a ELSE b
Max(a, b) == IF a >= b THEN a ELSE b

Range(s) == {s[i] : i \in 1..Len(s)}

\* s[:n] of Python, for n >= 0.
Take(s, n) == SubSeq(s, 1, Min(n, Len(s)))

\* The elements of a finite set of integers as an ascending list.
RECURSIVE SetToList(_)
SetToList(S) ==
    IF S = {} THEN <<>>
    ELSE LET m == CHOOSE x \in S : \A y \in S : x <= y
         IN <<m>> \o SetToList(S \ {m})

\* One step of a stable descending sort: e goes after every element whose
\* score is at least its own.
RECURSIVE InsertByScore(_, _)
InsertByScore(sorted, e) ==
    IF sorted = <<>> THEN <<e>>
    ELSE IF Head(sorted).score >= e.score
         THEN <<Head(sorted)>> \o InsertByScore(Tail(sorted), e)
         ELSE <<e>> \o sorted

\* sorted(feed, key=lambda x: x["score"], reverse=True): stable.
RECURSIVE SortByScore(_)
SortByScore(feed) ==
    IF feed = <<>> THEN <<>>
    ELSE InsertByScore(SortByScore(SubSeq(feed, 1, Len(feed) - 1)), feed[Len(feed)])

(***************************************************************************)
(* Lookups of the membership and follow tables.                            *)
(***************************************************************************)
UniversityMembers(univ) == {m.user : m \in {x \in memberships : x.university = univ}}
CompanyMembers(comp) == {m.user : m \in {x \in memberships : x.company = comp}}
Followers(author) == {f[1] : f \in {x \in follows : x[2] = author}}
Followed(user) == {f[2] : f \in {x \in follows : x[1] = user}}
UserUniversities(user) ==
    {m.university : m \in {x \in memberships : x.user = user /\ x.university # NoOrg}}
UserCompanies(user) ==
    {m.company : m \in {x \in memberships : x.user = user /\ x.company # NoOrg}}

(***************************************************************************)
(* calculate_post_score, with the random factor as a parameter.            *)
(***************************************************************************)
TimeDiff_unclamped(post) == Min(RecencyDays, now - post.created_at)

\* timedelta.days of now - created_at clamped to 0..7.
TimeDiff(post) == Max(0, Min(RecencyDays, now - post.created_at))

RecencyScore(post) == 10 * (ScoreUnit - (ScoreUnit \div RecencyDays) * TimeDiff(post))

Engagement(p) ==
    Cardinality({l \in likes : l[2] = p})
    + 2 * Cardinality({c \in comments : c[2] = p})
    + 3 * Cardinality({s \in shares : s[2] = p})

EngagementScore(p) == Min(5 * ScoreUnit, (ScoreUnit \div 10) * Engagement(p))

OrgRelevance(post, user) ==
    IF post.university # NoOrg /\ post.university \in UserUniversities(user)
    THEN 5 * ScoreUnit
    ELSE IF post.company # NoOrg /\ post.company \in UserCompanies(user)
         THEN 5 * ScoreUnit
         ELSE 0

calculate_post_score(p, user, jitter) ==
    RecencyScore(posts[p]) + EngagementScore(p) + OrgRelevance(posts[p], user) + jitter

(***************************************************************************)
(* Initial state: empty tables, and a follow graph and membership table    *)
(* drawn from small sets.  These tables are owned by other parts of the    *)
(* application; the feed subsystem only reads them.                        *)
(***************************************************************************)
UnknownUser == NumUsers + 1
CacheKeys == Users \cup {UnknownUser}

Absent == [present |-> FALSE, feed |-> <<>>]
Stored(feed) == [present |-> TRUE, feed |-> feed]

\* cache.get(key, [])
CacheGet(key) == IF cache[key].present THEN cache[key].feed ELSE <<>>

Membership(u, univ, comp) == [user |-> u, university |-> univ, company |-> comp]

FollowPairs == {<<f, 1>> : f \in Users \ {1}}
MembershipRows ==
    {Membership(2, University, NoOrg), Membership(3, University, NoOrg),
     Membership(3, NoOrg, Company)}

AnonymousUser == 0
Algorithms == {"chronological", "engagement", "mixed"}
Reply(code, user, page, page_size, algorithm, results) ==
    [status |-> code, user |-> user, page |-> page, page_size |-> page_size,
     algorithm |-> algorithm, results |-> results,
     has_next |-> Len(results) = page_size]
\* No request is being answered.
NoResponse == Reply(0, AnonymousUser, 0, 0, "", <<>>)

NumWorkers == 2
Workers == 1..NumWorkers
Idle == [pc |-> "idle"]
NoCommand == [pc |-> "none"]

\* Empty feed tables over a given follow graph and membership table.
InitWith(graphs, tables) ==
    /\ now = 0
    /\ posts = [p \in {} |-> 0]
    /\ follows \in graphs
    /\ memberships \in tables
    /\ university_admins = {}
    /\ likes = {}
    /\ comments = {}
    /\ shares = {}
    /\ feed_entries = {}
    /\ celebrity_posts = {}
    /\ cache = [k \in CacheKeys |-> Absent]
    /\ tasks = {}
    /\ refreshing = 0
    /\ outcome = "none"
    /\ response = NoResponse
    /\ ops = 0
    /\ available = TRUE
    /\ universities = {University}
    /\ workers = [w \in Workers |-> Idle]
    /\ command = NoCommand

\* User 2 follows user 1, user 3 may; users 2 and 3 are members of the
\* university and user 3 of the company.
Init == InitWith({G \in SUBSET FollowPairs : <<2, 1>> \in G}, {MembershipRows})

(***************************************************************************)
(* Content creation and time.                                              *)
(***************************************************************************)
\* Post.objects.create(...) followed by the post_save receiver
\* distribute_post_on_save, whose body is "pass".
distribute_post_on_save(post_id) == UNCHANGED tasks

create_post(author, univ, comp, is_private) ==
    LET post_id == Cardinality(DOMAIN posts) + 1 IN
    /\ post_id \in PostIds
    \* post_must_have_zero_or_one_organization
    /\ univ = NoOrg \/ comp = NoOrg
    /\ posts' = [p \in DOMAIN posts \cup {post_id} |->
                    IF p = post_id
                    THEN [author |-> author, university |-> univ, company |-> comp,
                          is_private |-> is_private, created_at |-> now]
                    ELSE posts[p]]
    /\ distribute_post_on_save(post_id)
    /\ UNCHANGED <<now, social, engagement,
                   feed_entries, celebrity_posts, cache, refreshing, outcome>>

\* PostViewSet.like, PostViewSet.share and CommentViewSet.perform_create: the
\* row each creates.  The update_feed_for_interaction task each hands to the
\* broker is the action of that name.  A user shares and comments on a post
\* at most once here, and MaxLikes bounds the rows of the three tables.
InteractionRoom ==
    Cardinality(likes) + Cardinality(comments) + Cardinality(shares) < MaxLikes

like(user, p) ==
    /\ p \in DOMAIN posts
    /\ InteractionRoom
    \* "already liked" answers 200 and creates nothing
    /\ <<user, p>> \notin likes
    /\ likes' = likes \cup {<<user, p>>}
    /\ UNCHANGED <<now, posts, social, comments, shares, feed_entries,
                   celebrity_posts, cache, tasks, refreshing, outcome>>

share(user, p) ==
    /\ p \in DOMAIN posts
    /\ InteractionRoom
    /\ <<user, p>> \notin shares
    /\ shares' = shares \cup {<<user, p>>}
    /\ UNCHANGED <<now, posts, social, likes, comments, feed_entries,
                   celebrity_posts, cache, tasks, refreshing, outcome>>

comment(user, p) ==
    /\ p \in DOMAIN posts
    /\ InteractionRoom
    /\ <<user, p>> \notin comments
    /\ comments' = comments \cup {<<user, p>>}
    /\ UNCHANGED <<now, posts, social, likes, shares, feed_entries,
                   celebrity_posts, cache, tasks, refreshing, outcome>>

tick(days) ==
    /\ now + days <= MaxNow
    /\ now' = now + days
    /\ UNCHANGED <<posts, social, engagement,
                   feed_entries, celebrity_posts, cache, tasks, refreshing, outcome>>

\* The cache entry of a key reaches its timeout (settings.FEED_CACHE_TTL).
cache_expire(key) ==
    /\ cache[key].present
    /\ cache' = [cache EXCEPT ![key] = Absent]
    /\ UNCHANGED <<now, posts, social, engagement,
                   feed_entries, celebrity_posts, tasks, refreshing, outcome>>

(***************************************************************************)
(* The FeedEntry table.                                                    *)
(***************************************************************************)
FeedEntryRow(user, p, score, interacted) ==
    [user |-> user, post |-> p, score |-> score, created_at |-> now,
     viewed |-> FALSE, interacted |-> interacted]

HasEntry(table, user, p) == \E e \in table : e.user = user /\ e.post = p

RowsOf(table, user) == {e \in table : e.user = user}

\* FeedEntry.objects.bulk_create(rows, ignore_conflicts=True) under
\* unique_together = ('user', 'post'): a row whose key is taken is dropped.
bulk_create_plain(table, rows) == table \cup rows

bulk_create_overwrite(table, rows) ==
    {e \in table : \A r \in rows : r.user # e.user \/ r.post # e.post} \cup rows

bulk_create(table, rows) ==
    table \cup {r \in rows : ~HasEntry(table, r.user, r.post)}

CacheEntry(p, score) == [post_id |-> p, score |-> score, viewed |-> FALSE]

(***************************************************************************)
(* distribute_post_to_feeds                                                *)
(***************************************************************************)
Recipients_with_followers(post) ==
    Followers(post.author)
    \cup (IF post.university # NoOrg THEN UniversityMembers(post.university) ELSE {})
    \cup (IF post.company # NoOrg THEN CompanyMembers(post.company) ELSE {})
    \cup {post.author}

\* recipient_users before the celebrity test (tasks.py 82-112).
Recipients(post) ==
    (IF post.company = NoOrg /\ post.university = NoOrg
     THEN Followers(post.author) ELSE {})
    \cup (IF post.university # NoOrg THEN UniversityMembers(post.university) ELSE {})
    \cup (IF post.company # NoOrg THEN CompanyMembers(post.company) ELSE {})
    \cup {post.author}

is_celebrity_at_threshold(post) == Cardinality(Recipients(post)) >= CelebrityThreshold

is_celebrity(post) == Cardinality(Recipients(post)) > CelebrityThreshold

Activity(user) == Cardinality({e \in feed_entries : e.user = user})

\* The possible results of
\*   FeedEntry.objects.filter(user_id__in=...).values('user_id')
\*       .annotate(activity=Count('id')).order_by('-activity')[:100]
\* Only users that own a row appear; equal counts come in any order.
ActiveFollowers(recipient_users) ==
    LET cands == {u \in recipient_users : Activity(u) > 0}
        n == Min(ActiveLimit, Cardinality(cands))
    IN {S \in SUBSET cands :
            /\ Cardinality(S) = n
            /\ \A u \in S, v \in cands \ S : Activity(u) >= Activity(v)}

BatchTask(p, users) == [post |-> p, users |-> users]

\* recipients_list[i:i+batch_size] for i in range(0, len, batch_size).
Batches(p, recipient_users) ==
    LET recipients_list == SetToList(recipient_users)
        n == Len(recipients_list)
    IN {BatchTask(p, Range(SubSeq(recipients_list, i, Min(i + BatchSize - 1, n)))) :
            i \in {j \in 1..n : (j - 1) % BatchSize = 0}}

distribute_post_to_feeds(post_id) ==
    IF post_id \notin DOMAIN posts
    THEN \* Post.DoesNotExist
         /\ outcome' = "error"
         /\ UNCHANGED <<now, posts, social, engagement,
                        feed_entries, celebrity_posts, cache, tasks, refreshing>>
    ELSE LET post == posts[post_id]
             marker == <<post.author, post_id>>
         IN IF is_celebrity(post)
            THEN IF marker \in celebrity_posts
                 THEN \* unique_together = ('author', 'post'): IntegrityError,
                      \* caught by "except Exception"
                      /\ outcome' = "error"
                      /\ UNCHANGED <<now, posts, social, engagement, feed_entries,
                                     celebrity_posts, cache, tasks, refreshing>>
                 ELSE \E active \in ActiveFollowers(Recipients(post)) :
                      /\ Cardinality(tasks \cup Batches(post_id, active)) <= MaxTasks
                      /\ celebrity_posts' = celebrity_posts \cup {marker}
                      /\ tasks' = tasks \cup Batches(post_id, active)
                      /\ outcome' = "ok"
                      /\ UNCHANGED <<now, posts, social, engagement, feed_entries, cache,
                                     refreshing>>
            ELSE /\ Cardinality(tasks \cup Batches(post_id, Recipients(post))) <= MaxTasks
                 /\ tasks' = tasks \cup Batches(post_id, Recipients(post))
                 /\ outcome' = "ok"
                 /\ UNCHANGED <<now, posts, social, engagement, feed_entries, celebrity_posts, cache,
                                refreshing>>

\* An execution of distribute_post_to_feeds whose worker process is killed
\* after CelebrityPostCache.objects.create (tasks.py 123-126) and before the
\* first batch is dispatched (143).  The row is committed: the task runs in
\* no transaction.
distribute_interrupted(post_id) ==
    /\ post_id \in DOMAIN posts
    /\ is_celebrity(posts[post_id])
    /\ <<posts[post_id].author, post_id>> \notin celebrity_posts
    /\ celebrity_posts' = celebrity_posts \cup {<<posts[post_id].author, post_id>>}
    /\ UNCHANGED <<now, posts, social, engagement, feed_entries, cache, tasks,
                   refreshing, outcome>>

(***************************************************************************)
(* _distribute_post_to_batch                                               *)
(***************************************************************************)
\* The FeedEntry instances built in memory (tasks.py 162-171); jitter[u] is
\* the random factor of the score computed for u.
BatchRows(p, users, jitter) ==
    {FeedEntryRow(u, p, calculate_post_score(p, u, jitter[u]), u = posts[p].author) :
        u \in users}

\* tasks.py 190-203: append the projection, sort, truncate, store.
CacheAppend(key, entry) ==
    Stored(Take(SortByScore(Append(CacheGet(key), entry)), CacheLimit))

distribute_post_to_batch(t) ==
    /\ t \in tasks
    /\ tasks' = tasks \ {t}
    /\ outcome' = "ok"
    /\ \E jitter \in [t.users -> Jitters] :
         LET rows == BatchRows(t.post, t.users, jitter) IN
         /\ feed_entries' = bulk_create(feed_entries, rows)
         /\ cache' = [k \in CacheKeys |->
                        IF k \in t.users
                        THEN CacheAppend(k, CacheEntry(t.post,
                                 calculate_post_score(t.post, k, jitter[k])))
                        ELSE cache[k]]
    /\ UNCHANGED <<now, posts, social, engagement,
                   celebrity_posts, refreshing>>

(***************************************************************************)
(* refresh_feed_for_user, in two steps: the delete of the user's rows, and *)
(* the rest.  Other tasks may run in between.                              *)
(***************************************************************************)
\* The Q filter of tasks.py 240-248.
RefreshVisible(p, user) ==
    LET post == posts[p] IN
    /\ \/ ~post.is_private
       \/ post.author = user
       \/ post.author \in Followed(user)
       \/ (post.university # NoOrg /\ post.university \in UserUniversities(user))
       \/ (post.company # NoOrg /\ post.company \in UserCompanies(user))
    /\ post.created_at >= now - FeedWindowDays

HasInteracted(user, p) ==
    \/ <<user, p>> \in likes
    \/ <<user, p>> \in comments
    \/ <<user, p>> \in shares

refresh_delete_keeping_rows(user_id) ==
    /\ refreshing = 0
    /\ IF user_id \notin Users
       THEN /\ outcome' = "error"
            /\ UNCHANGED <<feed_entries, refreshing>>
       ELSE /\ feed_entries' = feed_entries
            /\ refreshing' = user_id
            /\ UNCHANGED outcome
    /\ UNCHANGED <<now, posts, social, engagement,
                   celebrity_posts, cache, tasks>>

refresh_delete(user_id) ==
    /\ refreshing = 0
    /\ IF user_id \notin Users
       THEN \* User.DoesNotExist
            /\ outcome' = "error"
            /\ UNCHANGED <<feed_entries, refreshing>>
       ELSE /\ feed_entries' = {e \in feed_entries : e.user # user_id}
            /\ refreshing' = user_id
            /\ UNCHANGED outcome
    /\ UNCHANGED <<now, posts, social, engagement,
                   celebrity_posts, cache, tasks>>

RefreshRows(user, jitter) ==
    {FeedEntryRow(user, p, calculate_post_score(p, user, jitter[p]),
                  HasInteracted(user, p) \/ posts[p].author = user) :
        p \in {q \in DOMAIN posts : RefreshVisible(q, user)}}

\* The posts queryset comes in Post.Meta.ordering, newest first; posts of
\* the same day come in either order.
RECURSIVE PostOrders(_)
PostOrders(S) ==
    IF S = {} THEN {<<>>}
    ELSE UNION {{<<p>> \o rest : rest \in PostOrders(S \ {p})} :
                    p \in {q \in S : \A r \in S : posts[q].created_at >= posts[r].created_at}}

refresh_build(user_id) ==
    /\ refreshing = user_id
    /\ user_id \in Users
    /\ LET visible == {q \in DOMAIN posts : RefreshVisible(q, user_id)} IN
       \E jitter \in [visible -> Jitters], order \in PostOrders(visible) :
         /\ feed_entries' = bulk_create(feed_entries, RefreshRows(user_id, jitter))
         /\ cache' = [cache EXCEPT ![user_id] =
                        Stored(SortByScore(
                            [i \in 1..Len(order) |->
                                CacheEntry(order[i],
                                    calculate_post_score(order[i], user_id,
                                                         jitter[order[i]]))]))]
    /\ refreshing' = 0
    /\ outcome' = "ok"
    /\ UNCHANGED <<now, posts, social, engagement,
                   celebrity_posts, tasks>>

(***************************************************************************)
(* update_feed_for_interaction                                             *)
(***************************************************************************)
\* tasks.py 348-351: the first projection of the post gets "viewed": True.
RECURSIVE MarkViewed(_, _)
MarkViewed(feed, post_id) ==
    IF feed = <<>> THEN <<>>
    ELSE IF Head(feed).post_id = post_id
         THEN <<[Head(feed) EXCEPT !.viewed = TRUE]>> \o Tail(feed)
         ELSE <<Head(feed)>> \o MarkViewed(Tail(feed), post_id)

update_feed_for_interaction_both_flags(user_id, post_id, interaction_type) ==
    /\ feed_entries' =
         {IF e.user = user_id /\ e.post = post_id
          THEN [e EXCEPT !.interacted = TRUE, !.viewed = TRUE]
          ELSE e : e \in feed_entries}
    /\ cache' = [cache EXCEPT ![user_id] = Stored(MarkViewed(CacheGet(user_id), post_id))]
    /\ outcome' = "ok"
    /\ UNCHANGED <<now, posts, social, engagement,
                   celebrity_posts, tasks, refreshing>>

update_feed_for_interaction(user_id, post_id, interaction_type) ==
    /\ feed_entries' =
         {IF e.user = user_id /\ e.post = post_id
          THEN IF interaction_type # "view"
               THEN [e EXCEPT !.interacted = TRUE]
               ELSE [e EXCEPT !.viewed = TRUE]
          ELSE e : e \in feed_entries}
    /\ cache' = [cache EXCEPT ![user_id] = Stored(MarkViewed(CacheGet(user_id), post_id))]
    /\ outcome' = "ok"
    /\ UNCHANGED <<now, posts, social, engagement,
                   celebrity_posts, tasks, refreshing>>

(***************************************************************************)
(* cleanup_old_feeds: the management command without --inactive-only.  Its *)
(* Redis pass reads sorted sets under keys the Django cache never writes,  *)
(* so it finds nothing to remove.                                          *)
(***************************************************************************)
CleanupDays == {1, 20}

entries_query_inclusive(days) == {e \in feed_entries : e.created_at <= now - days}

\* FeedEntry.objects.filter(created_at__lt=cutoff_date)
entries_query(days) == {e \in feed_entries : e.created_at < now - days}

cleanup_old_feeds_ignoring_dry_run(days, dry_run) ==
    /\ feed_entries' = feed_entries \ entries_query(days)
    /\ outcome' = "ok"
    /\ UNCHANGED <<now, posts, social, engagement,
                   celebrity_posts, cache, tasks, refreshing>>

cleanup_old_feeds(days, dry_run) ==
    /\ feed_entries' = IF dry_run THEN feed_entries
                       ELSE feed_entries \ entries_query(days)
    /\ outcome' = "ok"
    /\ UNCHANGED <<now, posts, social, engagement,
                   celebrity_posts, cache, tasks, refreshing>>

\* What the command writes to its standard output: "Would have deleted
\* {count} entries" of a dry run, "Successfully deleted {deleted} old feed
\* entries" otherwise; status is its exit code.
Report(days, dry_run, count) ==
    [status |-> 0, days |-> days, dry_run |-> dry_run, count |-> count]

\* The command run from a shell, its output read by the operator.
cleanup_command(days, dry_run) ==
    /\ response = NoResponse
    /\ ops < MaxOps
    /\ cleanup_old_feeds(days, dry_run)
    /\ response' = Report(days, dry_run, Cardinality(entries_query(days)))
    /\ ops' = IF feed_entries' = feed_entries THEN ops ELSE ops + 1
    /\ UNCHANGED platform

(***************************************************************************)
(* The system.                                                             *)
(***************************************************************************)
\* The kinds of post a behaviour of Spec creates.
PostKind(a, univ, comp, priv) ==
    [author |-> a, university |-> univ, company |-> comp, is_private |-> priv]
PostKinds ==
    {PostKind(1, NoOrg, NoOrg, FALSE), PostKind(2, University, NoOrg, TRUE),
     PostKind(1, NoOrg, Company, TRUE)}

\* A step of the tables the feed subsystem reads or of the clock, and a task
\* execution that changes the feed tables, of which a behaviour has at most
\* MaxOps.  Neither happens while a request is being answered: a request
\* reads the tables as they are at one instant.
Environment(A) == response = NoResponse /\ A /\ UNCHANGED <<ops, response, platform>>
TaskWithin(A, budget) ==
    /\ response = NoResponse
    /\ ops < budget
    /\ A
    /\ ops' = IF <<feed_entries, cache, refreshing>>' = <<feed_entries, cache, refreshing>>
              THEN ops ELSE ops + 1
    /\ UNCHANGED <<response, platform>>
Task(A) == TaskWithin(A, MaxOps)

Next ==
    \/ \E k \in PostKinds :
          /\ Cardinality(DOMAIN posts) < MaxPosts
          /\ Environment(create_post(k.author, k.university, k.company, k.is_private))
    \/ Environment(tick(LongTick))
    \/ \E p \in DOMAIN posts : Environment(distribute_post_to_feeds(p))
    \/ \E t \in tasks : Task(distribute_post_to_batch(t))
    \/ \E u \in Users : Task(refresh_delete(u))
    \/ \E u \in Users : Task(refresh_build(u))
    \/ \E u \in Users, p \in DOMAIN posts, k \in InteractionTypes :
          Task(update_feed_for_interaction(u, p, k))
    \/ \E d \in CleanupDays, dry \in BOOLEAN : Task(cleanup_old_feeds(d, dry))
    \/ \E k \in Users : Task(cache_expire(k))

Spec == Init /\ [][Next]_vars

(***************************************************************************)
(* PostViewSet.home_feed (api.py 172-286).  It reads the Post, Like,       *)
(* Comment, Share and membership tables; it reads neither FeedEntry nor    *)
(* CelebrityPostCache nor the feed cache.                                  *)
(***************************************************************************)
AdministeredUniversities(user) ==
    {a[2] : a \in {x \in university_admins : x[1] = user}}

base_query_unwindowed(user) ==
    {p \in DOMAIN posts :
        \/ ~posts[p].is_private
        \/ posts[p].university \in AdministeredUniversities(user)
        \/ posts[p].university \in UserUniversities(user)
        \/ posts[p].company \in UserCompanies(user)}

base_query(user) ==
    {p \in DOMAIN posts :
        /\ \/ ~posts[p].is_private
           \/ posts[p].university \in AdministeredUniversities(user)
           \/ posts[p].university \in UserUniversities(user)
           \/ posts[p].company \in UserCompanies(user)
        /\ posts[p].created_at >= now - FeedWindowDays}

user_interacted_posts(user) ==
    {p \in DOMAIN posts :
        <<user, p>> \in likes \/ <<user, p>> \in comments \/ <<user, p>> \in shares}

total_engagement(p) == Engagement(p)

\* Count('university', filter=...) * 5: a post without a university counts 0.
org_relevance(p, user) ==
    IF /\ posts[p].university # NoOrg
       /\ \/ posts[p].university \in UserUniversities(user)
          \/ posts[p].company \in UserCompanies(user)
    THEN 5 ELSE 0

\* p sorts strictly before q under the order_by of the algorithm.
Precedes(algorithm, user, p, q) ==
    LET newer == posts[p].created_at > posts[q].created_at
        same_time == posts[p].created_at = posts[q].created_at
        more == total_engagement(p) > total_engagement(q)
        same_engagement == total_engagement(p) = total_engagement(q)
    IN CASE algorithm = "chronological" -> newer
         [] algorithm = "engagement" -> more \/ (same_engagement /\ newer)
         [] OTHER ->
              \/ newer
              \/ same_time /\ more
              \/ same_time /\ same_engagement
                 /\ org_relevance(p, user) > org_relevance(q, user)

\* The orders the database may return the rows of S in: rows the order_by
\* does not tell apart come in any order.
RECURSIVE order_by(_, _, _)
order_by(S, algorithm, user) ==
    IF S = {} THEN {<<>>}
    ELSE UNION {{<<p>> \o rest : rest \in order_by(S \ {p}, algorithm, user)} :
                   p \in {x \in S : \A y \in S : ~Precedes(algorithm, user, y, x)}}

RECURSIVE Filter(_, _)
Filter(s, S) ==
    IF s = <<>> THEN <<>>
    ELSE IF Head(s) \in S THEN <<Head(s)>> \o Filter(Tail(s), S)
         ELSE Filter(Tail(s), S)

\* api.py 258-270 on one order of the rows.  start = (page - 1) * page_size
\* and end = page * page_size are computed and used by no slice, so page
\* does not appear below.
feed_page(user, page, page_size, posts_with_stats) ==
    LET interacted_posts ==
            Take(Filter(posts_with_stats, user_interacted_posts(user)),
                 InteractedLimit)
        remaining_count ==
            Min(page_size - Len(interacted_posts), Len(posts_with_stats))
        regular_posts ==
            Take(Filter(posts_with_stats,
                        base_query(user) \ Range(interacted_posts)),
                 remaining_count)
    IN [remaining_count |-> remaining_count,
        interacted_posts |-> interacted_posts,
        regular_posts |-> regular_posts]

\* One order of the rows serves the three queries of a request.  A negative
\* remaining_count makes the slice raise, which the framework answers 500.
home_feed(user, page, page_size, algorithm) ==
    /\ response = NoResponse
    /\ IF user = AnonymousUser
       THEN response' = Reply(401, user, page, page_size, algorithm, <<>>)
       ELSE \E posts_with_stats \in order_by(base_query(user), algorithm, user) :
              LET combined == feed_page(user, page, page_size, posts_with_stats)
              IN response' =
                    IF combined.remaining_count < 0
                    THEN Reply(500, user, page, page_size, algorithm, <<>>)
                    ELSE Reply(200, user, page, page_size, algorithm,
                               combined.interacted_posts \o combined.regular_posts)
    /\ UNCHANGED <<now, posts, social, engagement, feed_entries, celebrity_posts,
                   cache, tasks, refreshing, outcome, ops, platform>>

\* The response leaves the server.
send_response ==
    /\ response # NoResponse
    /\ response' = NoResponse
    /\ UNCHANGED <<now, posts, social, engagement, feed_entries, celebrity_posts,
                   cache, tasks, refreshing, outcome, ops, platform>>

(***************************************************************************)
(* Reading: user 1 is followed by users 2 and 3; posts are created,        *)
(* liked and distributed, days pass, and feeds are requested.              *)
(***************************************************************************)
InitReader == InitWith({FollowPairs}, {MembershipRows})

ReaderKinds ==
    {PostKind(1, NoOrg, NoOrg, FALSE), PostKind(1, NoOrg, NoOrg, TRUE),
     PostKind(3, University, NoOrg, TRUE)}
Readers == {1, 2}
\* The page and page_size of the requests made.
Requests == {<<1, 1>>, <<1, MaxFeedPosts>>, <<2, 1>>}
MaxMarkers == 1

NextReader ==
    \/ \E k \in ReaderKinds :
          Environment(create_post(k.author, k.university, k.company, k.is_private))
    \/ now < ShortTick /\ Environment(tick(ShortTick))
    \/ \E p \in DOMAIN posts : Environment(like(2, p))
    \/ \E p \in DOMAIN posts :
          /\ is_celebrity(posts[p])
          /\ Cardinality(celebrity_posts) < MaxMarkers
          /\ Environment(distribute_post_to_feeds(p))
    \/ \E u \in Readers, r \in Requests, a \in Algorithms :
          home_feed(u, r[1], r[2], a)
    \/ home_feed(AnonymousUser, 1, MaxFeedPosts, "mixed")
    \/ send_response

SpecReader == InitReader /\ [][NextReader]_vars

(***************************************************************************)
(* Fan-out alone: posts of every kind over every follow graph and          *)
(* membership table of the bounds, distributed and delivered.              *)
(***************************************************************************)
InitFanout == InitWith(SUBSET FollowPairs, SUBSET MembershipRows)

NextFanout ==
    \/ \E a \in Users, univ \in {NoOrg, University}, comp \in {NoOrg, Company} :
          /\ Cardinality(DOMAIN posts) < MaxPosts
          /\ Environment(create_post(a, univ, comp, univ # NoOrg \/ comp # NoOrg))
    \/ \E p \in DOMAIN posts : Environment(distribute_post_to_feeds(p))
    \/ \E t \in tasks : TaskWithin(distribute_post_to_batch(t), MaxFanoutOps)

SpecFanout == InitFanout /\ [][NextFanout]_vars

(***************************************************************************)
(* Reading across the 30-day window: posts are created and liked, thirty   *)
(* days pass at once and single days pass on either side of them, and      *)
(* feeds are requested.                                                    *)
(***************************************************************************)
NextWindow ==
    \/ \E k \in ReaderKinds :
          /\ Cardinality(DOMAIN posts) < MaxPosts
          /\ Environment(create_post(k.author, k.university, k.company, k.is_private))
    \/ Environment(tick(FeedWindowDays))
    \/ (now = 0 \/ now >= FeedWindowDays) /\ Environment(tick(1))
    \/ \E p \in DOMAIN posts : Environment(like(2, p))
    \/ \E u \in Readers, r \in Requests, a \in Algorithms :
          home_feed(u, r[1], r[2], a)
    \/ send_response

SpecWindow == InitReader /\ [][NextWindow]_vars

(***************************************************************************)
(* Interaction: user 2 follows user 1; posts are created, distributed and  *)
(* delivered, cache entries expire, and update_feed_for_interaction runs   *)
(* for every user id, known or not, and every interaction type, one of     *)
(* the four the task documents or another string.                         *)
(***************************************************************************)
InitInteraction == InitWith({{<<2, 1>>}}, {MembershipRows})

InteractionKinds ==
    {PostKind(1, NoOrg, NoOrg, FALSE), PostKind(2, University, NoOrg, TRUE)}
OtherType == "reaction"

NextInteraction ==
    \/ \E k \in InteractionKinds :
          /\ Cardinality(DOMAIN posts) < MaxPosts
          /\ Environment(create_post(k.author, k.university, k.company, k.is_private))
    \/ \E p \in DOMAIN posts : Environment(distribute_post_to_feeds(p))
    \/ \E t \in tasks : Task(distribute_post_to_batch(t))
    \/ \E u \in CacheKeys, p \in DOMAIN posts, k \in InteractionTypes \cup {OtherType} :
          Task(update_feed_for_interaction(u, p, k))
    \/ \E k \in CacheKeys : Task(cache_expire(k))

SpecInteraction == InitInteraction /\ [][NextInteraction]_vars

(***************************************************************************)
(* Rebuild: user 2 follows user 1; posts are created, distributed and      *)
(* delivered, a month passes, and the feeds of users 1 and 2 are rebuilt.  *)
(***************************************************************************)
RebuildKinds ==
    {PostKind(1, NoOrg, NoOrg, FALSE), PostKind(1, NoOrg, Company, TRUE)}

NextRebuild ==
    \/ \E k \in RebuildKinds :
          /\ Cardinality(DOMAIN posts) < MaxPosts
          /\ Environment(create_post(k.author, k.university, k.company, k.is_private))
    \/ Environment(tick(LongTick))
    \/ \E p \in DOMAIN posts : Environment(distribute_post_to_feeds(p))
    \/ \E t \in tasks : Task(distribute_post_to_batch(t))
    \/ \E u \in {1, 2} : Task(refresh_delete(u))
    \/ \E u \in {1, 2} : Task(refresh_build(u))

SpecRebuild == InitInteraction /\ [][NextRebuild]_vars

(***************************************************************************)
(* The size of the cache: user 2 follows user 1, who creates up to         *)
(* MaxCachePosts public posts; they are distributed and delivered, user 2  *)
(* views them, and the feed of user 2 is rebuilt.                          *)
(***************************************************************************)
MaxCachePosts == 3

NextCache ==
    \/ /\ Cardinality(DOMAIN posts) < MaxCachePosts
       /\ Environment(create_post(1, NoOrg, NoOrg, FALSE))
    \/ \E p \in DOMAIN posts : Environment(distribute_post_to_feeds(p))
    \/ \E t \in tasks : Task(distribute_post_to_batch(t))
    \/ Task(refresh_delete(2))
    \/ Task(refresh_build(2))
    \/ \E p \in DOMAIN posts : Task(update_feed_for_interaction(2, p, "view"))

SpecCache == InitInteraction /\ [][NextCache]_vars

(***************************************************************************)
(* Pruning: user 2 follows user 1; posts are created, distributed and      *)
(* delivered on different days, and the cleanup command is run.            *)
(***************************************************************************)
MaxCleanupNow == 2

NextCleanup ==
    \/ /\ Cardinality(DOMAIN posts) < MaxPosts
       /\ Environment(create_post(1, NoOrg, NoOrg, FALSE))
    \/ now < MaxCleanupNow /\ Environment(tick(1))
    \/ \E p \in DOMAIN posts : Environment(distribute_post_to_feeds(p))
    \/ \E t \in tasks : Task(distribute_post_to_batch(t))
    \/ \E d \in CleanupDays, dry \in BOOLEAN : cleanup_command(d, dry)
    \/ send_response

SpecCleanup == InitInteraction /\ [][NextCleanup]_vars

(***************************************************************************)
(* Outages: the database and the cache stop answering, and answer again.   *)
(* A statement that runs during an outage raises an exception.             *)
(***************************************************************************)
store_fails ==
    /\ response = NoResponse
    /\ available
    /\ available' = FALSE
    /\ UNCHANGED <<now, posts, social, engagement, feed_entries, celebrity_posts,
                   cache, tasks, refreshing, outcome, response, ops,
                   universities, workers, command>>

store_recovers ==
    /\ response = NoResponse
    /\ ~available
    /\ available' = TRUE
    /\ UNCHANGED <<now, posts, social, engagement, feed_entries, celebrity_posts,
                   cache, tasks, refreshing, outcome, response, ops,
                   universities, workers, command>>

\* refresh_feed_for_user when a statement of it raises: "except Exception"
\* logs the error and returns "Error: ..." (tasks.py 315-317).
refresh_fails(user_id) ==
    /\ refreshing \in {0, user_id}
    /\ refreshing' = 0
    /\ outcome' = "error"
    /\ UNCHANGED <<now, posts, social, engagement, feed_entries, celebrity_posts,
                   cache, tasks>>

(***************************************************************************)
(* _distribute_post_to_batch as a Celery worker process runs it, statement *)
(* by statement: the rows (tasks.py 158-174), then for every user of the   *)
(* batch the read of the cached feed (191) and the write of the new one    *)
(* (194-203).  The executions of different workers interleave.             *)
(***************************************************************************)
\* The orders User.objects.filter(id__in=user_ids) may return the users in.
RECURSIVE UserOrders(_)
UserOrders(S) ==
    IF S = {} THEN {<<>>}
    ELSE UNION {{<<u>> \o rest : rest \in UserOrders(S \ {u})} : u \in S}

\* An execution that reads the cache for Head(todo) next, or writes it.
Running(pc, p, todo, scores, feed) ==
    [pc |-> pc, post |-> p, todo |-> todo, scores |-> scores, feed |-> feed]

\* "except Exception": the error is logged and returned, the task is over.
batch_fails(w) ==
    /\ workers' = [workers EXCEPT ![w] = Idle]
    /\ outcome' = "error"

batch_start(w, t) ==
    /\ response = NoResponse
    /\ workers[w] = Idle
    /\ t \in tasks
    /\ tasks' = tasks \ {t}
    /\ IF ~available \/ t.post \notin DOMAIN posts
       THEN \* the database raises, or Post.DoesNotExist
            /\ batch_fails(w)
            /\ UNCHANGED feed_entries
       ELSE \E jitter \in [t.users -> Jitters], order \in UserOrders(t.users) :
            /\ feed_entries' = bulk_create(feed_entries, BatchRows(t.post, t.users, jitter))
            /\ workers' = [workers EXCEPT ![w] =
                   Running("get", t.post, order,
                           [u \in t.users |-> calculate_post_score(t.post, u, jitter[u])],
                           <<>>)]
            /\ UNCHANGED outcome
    /\ UNCHANGED <<now, posts, social, engagement, celebrity_posts, cache, refreshing,
                   response, ops, available, universities, command>>

\* user_feed = cache.get(cache_key, [])
batch_cache_get(w) ==
    /\ response = NoResponse
    /\ workers[w].pc = "get"
    /\ IF ~available
       THEN batch_fails(w)
       ELSE /\ workers' = [workers EXCEPT ![w].pc = "set",
                                          ![w].feed = CacheGet(Head(workers[w].todo))]
            /\ UNCHANGED outcome
    /\ UNCHANGED <<now, posts, social, engagement, feed_entries, celebrity_posts, cache,
                   tasks, refreshing, response, ops, available, universities, command>>

\* append, sort, truncate, cache.set; then the next user, or the return.
batch_cache_set(w) ==
    /\ response = NoResponse
    /\ workers[w].pc = "set"
    /\ LET user == Head(workers[w].todo)
           rest == Tail(workers[w].todo)
           entry == CacheEntry(workers[w].post, workers[w].scores[user])
       IN IF ~available
          THEN batch_fails(w) /\ UNCHANGED cache
          ELSE /\ cache' = [cache EXCEPT ![user] =
                      Stored(Take(SortByScore(Append(workers[w].feed, entry)), CacheLimit))]
               /\ IF rest = <<>>
                  THEN workers' = [workers EXCEPT ![w] = Idle] /\ outcome' = "ok"
                  ELSE /\ workers' = [workers EXCEPT ![w].pc = "get", ![w].todo = rest,
                                                     ![w].feed = <<>>]
                       /\ UNCHANGED outcome
    /\ UNCHANGED <<now, posts, social, engagement, feed_entries, celebrity_posts,
                   tasks, refreshing, response, ops, available, universities, command>>

\* A task the broker hands to a worker while the database answers.
WhenAvailable(A) == available /\ Environment(A)

(***************************************************************************)
(* distribute_post_to_feeds as a worker runs it, in two steps: the read of *)
(* the post with its author, university and company (tasks.py 76-77), and  *)
(* the rest.  Other requests are served in between.                        *)
(***************************************************************************)
Resolving(p, row) == [pc |-> "resolve", post |-> p, row |-> row]

distribute_get(w, post_id) ==
    /\ response = NoResponse
    /\ workers[w] = Idle
    /\ IF ~available \/ post_id \notin DOMAIN posts
       THEN \* the database raises, or Post.DoesNotExist
            batch_fails(w)
       ELSE /\ workers' = [workers EXCEPT ![w] = Resolving(post_id, posts[post_id])]
            /\ UNCHANGED outcome
    /\ UNCHANGED <<now, posts, social, engagement, feed_entries, celebrity_posts, cache,
                   tasks, refreshing, response, ops, available, universities, command>>

\* tasks.py 82-145 on the post object read before: the queries see the
\* tables as they are now.
distribute_resolve(w) ==
    /\ response = NoResponse
    /\ workers[w].pc = "resolve"
    /\ LET post_id == workers[w].post
           post == workers[w].row
           marker == <<post.author, post_id>>
       IN IF ~available
          THEN batch_fails(w) /\ UNCHANGED <<celebrity_posts, tasks>>
          ELSE IF is_celebrity(post)
               THEN IF marker \in celebrity_posts \/ post_id \notin DOMAIN posts
                    THEN \* IntegrityError: unique_together, or the foreign
                         \* key to a post that is gone
                         batch_fails(w) /\ UNCHANGED <<celebrity_posts, tasks>>
                    ELSE \E active \in ActiveFollowers(Recipients(post)) :
                         /\ Cardinality(tasks \cup Batches(post_id, active)) <= MaxTasks
                         /\ celebrity_posts' = celebrity_posts \cup {marker}
                         /\ tasks' = tasks \cup Batches(post_id, active)
                         /\ workers' = [workers EXCEPT ![w] = Idle]
                         /\ outcome' = "ok"
               ELSE /\ Cardinality(tasks \cup Batches(post_id, Recipients(post))) <= MaxTasks
                    /\ tasks' = tasks \cup Batches(post_id, Recipients(post))
                    /\ workers' = [workers EXCEPT ![w] = Idle]
                    /\ outcome' = "ok"
                    /\ UNCHANGED celebrity_posts
    /\ UNCHANGED <<now, posts, social, engagement, feed_entries, cache, refreshing,
                   response, ops, available, universities, command>>

(***************************************************************************)
(* UniversityViewSet.destroy: the row goes, and with it every row that     *)
(* refers to it through a foreign key with on_delete=CASCADE, and the rows *)
(* that refer to those.  The cache is left alone.                          *)
(***************************************************************************)
delete_university(univ) ==
    LET kept == {p \in DOMAIN posts : posts[p].university # univ} IN
    /\ response = NoResponse
    /\ univ \in universities
    /\ universities' = universities \ {univ}
    /\ memberships' = {m \in memberships : m.university # univ}
    /\ university_admins' = {a \in university_admins : a[2] # univ}
    /\ posts' = [p \in kept |-> posts[p]]
    /\ likes' = {l \in likes : l[2] \in kept}
    /\ comments' = {c \in comments : c[2] \in kept}
    /\ shares' = {s \in shares : s[2] \in kept}
    /\ feed_entries' = {e \in feed_entries : e.post \in kept}
    /\ celebrity_posts' = {c \in celebrity_posts : c[2] \in kept}
    /\ UNCHANGED <<now, follows, cache, tasks, refreshing, outcome, response, ops,
                   available, workers, command>>

(***************************************************************************)
(* The rebuild_feeds management command without --active-only, run from a  *)
(* shell.  It calls refresh_feed_for_user in its own process, one user     *)
(* after the other, and drops what the calls return.                       *)
(***************************************************************************)
\* What the command leaves: exit is its exit code, 0 after the final
\* "Successfully rebuilt feed for ..." or "Feed rebuild complete", 1 after
\* a CommandError or another exception out of handle.
RebuildReport(code, user_id, returned) ==
    [exit |-> code, user_id |-> user_id, returned |-> returned]

\* --user-id values: 0, the users, and the id of no user.
UserIdOptions == 0..UnknownUser

Rebuilding(user_id, todo) ==
    [pc |-> "refresh", user_id |-> user_id, todo |-> todo, returned |-> <<>>]

\* rebuild_feeds.py 37-75: "if user_id:" is false for 0 and for no option,
\* and the command then takes every user in the order of their ids.
rebuild_command(user_id) ==
    /\ response = NoResponse
    /\ command = NoCommand
    /\ IF ~available
       THEN \* User.objects.get or user_queryset.count() raises
            /\ response' = RebuildReport(1, user_id, <<>>)
            /\ UNCHANGED command
       ELSE IF user_id # 0 /\ user_id \notin Users
            THEN \* CommandError
                 /\ response' = RebuildReport(1, user_id, <<>>)
                 /\ UNCHANGED command
            ELSE /\ command' = Rebuilding(user_id,
                                  IF user_id # 0 THEN <<user_id>> ELSE SetToList(Users))
                 /\ UNCHANGED response
    /\ UNCHANGED <<now, posts, social, engagement, feed_entries, celebrity_posts,
                   cache, tasks, refreshing, outcome, ops,
                   available, universities, workers>>

\* The call's return value: the command goes on to the next user whatever
\* it is.
Returned(value) ==
    [command EXCEPT !.todo = Tail(@), !.returned = Append(@, value)]

\* refresh_feed_for_user(user.id) up to its delete.
command_refresh_delete ==
    /\ response = NoResponse
    /\ command.pc = "refresh"
    /\ command.todo # <<>>
    /\ refreshing = 0
    /\ IF available
       THEN /\ refresh_delete(Head(command.todo))
            /\ UNCHANGED command
       ELSE /\ refresh_fails(Head(command.todo))
            /\ command' = Returned("error")
    /\ UNCHANGED <<response, ops, available, universities, workers>>

\* The rest of refresh_feed_for_user(user.id).
command_refresh_build ==
    /\ response = NoResponse
    /\ command.pc = "refresh"
    /\ command.todo # <<>>
    /\ refreshing = Head(command.todo)
    /\ IF available
       THEN /\ refresh_build(Head(command.todo))
            /\ command' = Returned("ok")
       ELSE /\ refresh_fails(Head(command.todo))
            /\ command' = Returned("error")
    /\ UNCHANGED <<response, ops, available, universities, workers>>

\* The last line of the command's output, and its exit.
command_finish ==
    /\ response = NoResponse
    /\ command.pc = "refresh"
    /\ command.todo = <<>>
    /\ response' = RebuildReport(0, command.user_id, command.returned)
    /\ command' = NoCommand
    /\ UNCHANGED <<now, posts, social, engagement, feed_entries, celebrity_posts,
                   cache, tasks, refreshing, outcome, ops,
                   available, universities, workers>>

(***************************************************************************)
(* The command: user 2 follows user 1; posts are created, the database     *)
(* goes away and comes back, and the command is run for every --user-id.   *)
(***************************************************************************)
NextCommand ==
    \/ \E k \in InteractionKinds :
          /\ Cardinality(DOMAIN posts) < MaxPosts
          /\ Environment(create_post(k.author, k.university, k.company, k.is_private))
    \/ store_fails
    \/ store_recovers
    \/ \E id \in UserIdOptions : rebuild_command(id)
    \/ command_refresh_delete
    \/ command_refresh_build
    \/ command_finish
    \/ send_response

SpecCommand == InitInteraction /\ [][NextCommand]_vars

(***************************************************************************)
(* Failures: user 2 follows user 1; posts are created and distributed, the *)
(* workers deliver them, the rebuild command runs over all users, and the  *)
(* database goes away and comes back in between.                           *)
(***************************************************************************)
MaxFaultPosts == 1

NextFaults ==
    \/ /\ Cardinality(DOMAIN posts) < MaxFaultPosts
       /\ Environment(create_post(1, NoOrg, NoOrg, FALSE))
    \/ \E p \in DOMAIN posts :
          /\ command = NoCommand
          /\ \A e \in feed_entries : e.post # p
          /\ WhenAvailable(distribute_post_to_feeds(p))
    \/ \E t \in tasks : batch_start(1, t)
    \/ batch_cache_get(1)
    \/ batch_cache_set(1)
    \/ store_fails
    \/ store_recovers
    \/ /\ tasks = {} /\ workers[1] = Idle
       /\ RowsOf(feed_entries, NumUsers) = {}
       /\ rebuild_command(0)
    \/ command_refresh_delete
    \/ command_refresh_build
    \/ command_finish
    \/ send_response

SpecFaults == InitInteraction /\ [][NextFaults]_vars

(***************************************************************************)
(* Deletion of the university: user 2 follows user 1; posts of the         *)
(* university and personal posts are created, the workers distribute and   *)
(* deliver them, and the university is deleted in between.                 *)
(***************************************************************************)
GroupKinds ==
    {PostKind(2, University, NoOrg, TRUE), PostKind(1, NoOrg, NoOrg, FALSE)}

NextGroup ==
    \/ \E k \in GroupKinds :
          /\ Cardinality(DOMAIN posts) < MaxPosts
          /\ k.university \in universities \cup {NoOrg}
          /\ universities # {}
          /\ Environment(create_post(k.author, k.university, k.company, k.is_private))
    \/ delete_university(University)
    \/ \E w \in Workers, p \in 1..MaxPosts :
          /\ \A e \in feed_entries : e.post # p
          /\ \A t \in tasks : t.post # p
          /\ \A v \in Workers : IF workers[v] = Idle THEN TRUE ELSE workers[v].post # p
          /\ distribute_get(w, p)
    \/ \E w \in Workers : distribute_resolve(w)
    \/ \E w \in Workers, t \in tasks : batch_start(w, t)
    \/ \E w \in Workers : batch_cache_get(w)
    \/ \E w \in Workers : batch_cache_set(w)

SpecGroup == InitInteraction /\ [][NextGroup]_vars

(***************************************************************************)
(* Scoring: two posts of one author and one kind whose created_at (a       *)
(* field with a default, which the admin and fixtures may set) lies        *)
(* anywhere from ScoreNow days ago to a day ahead; user 2 follows user 1,  *)
(* posts are liked, and the posts are distributed and delivered, which     *)
(* scores them for their recipients.                                       *)
(***************************************************************************)
ScoreNow == 8
CreatedTimes == 0..(ScoreNow + 1)
ScoreKinds ==
    {PostKind(1, NoOrg, NoOrg, FALSE), PostKind(2, University, NoOrg, TRUE)}

InitScore ==
    /\ now = ScoreNow
    /\ \E k \in ScoreKinds, created \in [1..2 -> CreatedTimes] :
          posts = [p \in 1..2 |->
                      [author |-> k.author, university |-> k.university,
                       company |-> k.company, is_private |-> k.is_private,
                       created_at |-> created[p]]]
    /\ follows = {<<2, 1>>}
    /\ memberships = MembershipRows
    /\ university_admins = {}
    /\ likes = {}
    /\ comments = {}
    /\ shares = {}
    /\ feed_entries = {}
    /\ celebrity_posts = {}
    /\ cache = [k \in CacheKeys |-> Absent]
    /\ tasks = {}
    /\ refreshing = 0
    /\ outcome = "none"
    /\ response = NoResponse
    /\ ops = 0
    /\ available = TRUE
    /\ universities = {University}
    /\ workers = [w \in Workers |-> Idle]
    /\ command = NoCommand

NextScore ==
    \/ \E p \in DOMAIN posts : Environment(like(3, p))
    \/ \E p \in DOMAIN posts :
          /\ \A e \in feed_entries : e.post # p
          /\ Environment(distribute_post_to_feeds(p))
    \/ \E t \in tasks : Task(distribute_post_to_batch(t))

SpecScore == InitScore /\ [][NextScore]_vars

(***************************************************************************)
(* Re-execution: users 2 and 3 follow user 1, whose personal posts have    *)
(* more than CelebrityThreshold recipients; a post of the university gives *)
(* its members rows.  Posts are distributed, once or again, an execution   *)
(* may be cut short, and the batches are delivered.                        *)
(***************************************************************************)
RerunKinds ==
    {PostKind(1, NoOrg, NoOrg, FALSE), PostKind(3, University, NoOrg, TRUE)}

NextRerun ==
    \/ \E k \in RerunKinds :
          /\ Cardinality(DOMAIN posts) < MaxPosts
          /\ Environment(create_post(k.author, k.university, k.company, k.is_private))
    \/ \E p \in DOMAIN posts : Environment(distribute_interrupted(p))
    \/ \E p \in DOMAIN posts : Environment(distribute_post_to_feeds(p))
    \/ \E t \in tasks : Task(distribute_post_to_batch(t))

SpecRerun == InitReader /\ [][NextRerun]_vars

(***************************************************************************)
(* Concurrent delivery: user 2 follows user 1, who creates posts; each is  *)
(* distributed once, and NumWorkers worker processes deliver the batches   *)
(* at the same time.                                                       *)
(***************************************************************************)
NextConcurrent ==
    \/ /\ Cardinality(DOMAIN posts) < MaxPosts
       /\ Environment(create_post(1, NoOrg, NoOrg, FALSE))
    \/ \E p \in DOMAIN posts :
          /\ \A e \in feed_entries : e.post # p
          /\ \A t \in tasks : t.post # p
          /\ \A v \in Workers : IF workers[v] = Idle THEN TRUE ELSE workers[v].post # p
          /\ Environment(distribute_post_to_feeds(p))
    \/ \E w \in Workers, t \in tasks : batch_start(w, t)
    \/ \E w \in Workers : batch_cache_get(w)
    \/ \E w \in Workers : batch_cache_set(w)

SpecConcurrent == InitInteraction /\ [][NextConcurrent]_vars

(***************************************************************************)
(* Properties of the FeedEntry table under delivery, rebuild, interaction  *)
(* and pruning.                                                            *)
(***************************************************************************)
EntriesOf(table, user, p) == {e \in table : e.user = user /\ e.post = p}

\* C1: in every reachable state the FeedEntry table holds at most one row
\* per (user, post), whatever tasks ran and however they interleaved.
C1_OneEntryPerUserAndPost ==
    \A e1, e2 \in feed_entries :
        (e1.user = e2.user /\ e1.post = e2.post) => e1 = e2

\* A row exists for (u, p) and the cache of u holds two projections of p
\* with different scores: a second row for the pair was built and dropped.
C1_SecondInsertDropped ==
    \E u \in Users, p \in DOMAIN posts :
        /\ HasEntry(feed_entries, u, p)
        /\ \E i, j \in 1..Len(cache[u].feed) :
              /\ cache[u].feed[i].post_id = p
              /\ cache[u].feed[j].post_id = p
              /\ cache[u].feed[i].score # cache[u].feed[j].score

\* C2: a run of the delivery batch leaves exactly one row per (recipient,
\* post), and a row that existed before the run keeps its score, its viewed
\* flag and its interacted flag.
C2_RedeliveryKeepsRows ==
    [][\A t \in tasks :
         distribute_post_to_batch(t) =>
            /\ \A u \in t.users :
                  Cardinality(EntriesOf(feed_entries', u, t.post)) = 1
            /\ \A e \in feed_entries :
                  (e.post = t.post /\ e.user \in t.users) =>
                      \E f \in feed_entries' :
                          /\ f.user = e.user /\ f.post = e.post
                          /\ f.score = e.score
                          /\ f.viewed = e.viewed
                          /\ f.interacted = e.interacted]_vars

\* The batch ran, the recipient viewed the post, and the batch ran again:
\* the projection of the second run is ranked above the one marked viewed.
C2_ViewedBetweenTwoRuns ==
    \E u \in Users, p \in DOMAIN posts :
        /\ \E e \in feed_entries : e.user = u /\ e.post = p /\ e.viewed
        /\ Len(cache[u].feed) = 2
        /\ cache[u].feed[1].post_id = p /\ ~cache[u].feed[1].viewed
        /\ cache[u].feed[2].post_id = p /\ cache[u].feed[2].viewed
        /\ cache[u].feed[1].score > cache[u].feed[2].score

(***************************************************************************)
(* Properties of fan-out.                                                  *)
(***************************************************************************)
\* The audience of a post as the design states it.
ExpectedRecipients(post) ==
    {post.author} \cup
    (IF post.university = NoOrg /\ post.company = NoOrg
     THEN {u \in Users : <<u, post.author>> \in follows}
     ELSE {u \in Users :
             \E m \in memberships :
                 /\ m.user = u
                 /\ \/ (post.university # NoOrg /\ m.university = post.university)
                    \/ (post.company # NoOrg /\ m.company = post.company)})

\* The users the waiting batches of a post deliver to.
Pushed(queue, p) == UNION {t.users : t \in {x \in queue : x.post = p}}

\* C3: when a post is created, fan-out is triggered: the step that saves the
\* post leaves a task for it in the broker.
C3_CreationTriggersFanout ==
    [][\A p \in PostIds :
         (p \notin DOMAIN posts /\ p \in DOMAIN posts') =>
             \E t \in tasks' : t.post = p]_vars

\* C4: distribute_post_to_feeds resolves the author and the author's
\* followers for a post without a group, and the author and the members of
\* the group, without the followers, for a post with a group; a push to all
\* goes to exactly these, a limited push to some of these.
C4_RecipientsResolved ==
    [][\A p \in DOMAIN posts :
         distribute_post_to_feeds(p) =>
            IF Cardinality(ExpectedRecipients(posts[p])) <= CelebrityThreshold
            THEN Pushed(tasks', p) = ExpectedRecipients(posts[p])
            ELSE Pushed(tasks', p) \subseteq ExpectedRecipients(posts[p])]_vars

\* A group post is waiting for its members while a follower of its author
\* who is no member is left out, and a personal post is waiting for a
\* follower.
C4_GroupAndPersonalResolved ==
    /\ \E p \in DOMAIN posts :
          /\ posts[p].university # NoOrg \/ posts[p].company # NoOrg
          /\ \E t \in tasks : t.post = p /\ t.users # {posts[p].author}
          /\ \E f \in Followers(posts[p].author) : f \notin Pushed(tasks, p)
    /\ \E p \in DOMAIN posts :
          /\ posts[p].university = NoOrg /\ posts[p].company = NoOrg
          /\ \E t \in tasks : t.post = p /\ t.users # {posts[p].author}

\* C5: a post with at most CelebrityThreshold recipients is pushed to all of
\* them and gets no CelebrityPostCache row; a post with more gets the row
\* and is pushed to at most ActiveLimit of them.
C5_ThresholdDecidesPush ==
    [][\A p \in DOMAIN posts :
         distribute_post_to_feeds(p) =>
            LET r == ExpectedRecipients(posts[p])
                marker == <<posts[p].author, p>>
            IN IF Cardinality(r) <= CelebrityThreshold
               THEN /\ marker \notin celebrity_posts'
                    /\ Pushed(tasks', p) = r
               ELSE /\ marker \in celebrity_posts'
                    /\ Pushed(tasks', p) \subseteq r
                    /\ Cardinality(Pushed(tasks', p)) <= ActiveLimit]_vars

\* A post with exactly CelebrityThreshold recipients is waiting for all of
\* them, and a post with one more has its row and a limited push waiting.
C5_BothSidesOfThreshold ==
    /\ \E p \in DOMAIN posts :
          /\ Cardinality(Recipients(posts[p])) = CelebrityThreshold
          /\ Pushed(tasks, p) = Recipients(posts[p])
          /\ <<posts[p].author, p>> \notin celebrity_posts
    /\ \E p \in DOMAIN posts :
          /\ Cardinality(Recipients(posts[p])) = CelebrityThreshold + 1
          /\ <<posts[p].author, p>> \in celebrity_posts
          /\ Cardinality(Pushed(tasks, p)) = ActiveLimit

\* C6: once a post with more than CelebrityThreshold recipients has been
\* distributed and its batches have run, exactly ActiveLimit rows exist for
\* it.
C6_HighFanoutCreatesActiveLimitRows ==
    \A p \in DOMAIN posts :
        (/\ <<posts[p].author, p>> \in celebrity_posts
         /\ \A t \in tasks : t.post # p)
        => Cardinality({e \in feed_entries : e.post = p}) = ActiveLimit

(***************************************************************************)
(* Properties of home_feed responses.                                      *)
(***************************************************************************)
Results == response.results
Answered == response.status = 200

\* C7: a request that has room for every post answers each recipient of a
\* post with a CelebrityPostCache row with that post, also when the
\* recipient has no FeedEntry row for it, whether the post is public or not.
C7_MarkedPostsReachEveryRecipient ==
    Answered =>
        \A p \in DOMAIN posts :
            (/\ <<posts[p].author, p>> \in celebrity_posts
             /\ response.user \in Recipients(posts[p])
             /\ ~HasEntry(feed_entries, response.user, p)
             /\ posts[p].created_at >= now - FeedWindowDays
             /\ response.page_size >= Cardinality(DOMAIN posts))
            => p \in Range(Results)

\* C8: in a response no post the user has not interacted with comes before
\* a post the user has interacted with.
C8_InteractedBeforeOthers ==
    Answered =>
        \A i, j \in 1..Len(Results) :
            (i < j /\ HasInteracted(response.user, Results[j]))
            => HasInteracted(response.user, Results[i])

\* C9: every request of a user for a page size of at least 1 is answered
\* without error, with at most page_size posts, of which at most
\* InteractedLimit are posts the user has interacted with.
C9_AnsweredWithinPageSize ==
    (response.user # AnonymousUser /\ response.page_size >= 1) =>
        /\ Answered
        /\ Len(Results) <= response.page_size
        /\ Cardinality({i \in 1..Len(Results) :
                          HasInteracted(response.user, Results[i])}) <= InteractedLimit

\* C10: among the posts of a response of the default algorithm that the user
\* has not interacted with, none comes after a post of lower score; a
\* difference the random factor of the score can explain (half a point) is
\* not counted.
C10_OthersByScore ==
    (Answered /\ response.algorithm = "mixed") =>
        \A i, j \in 1..Len(Results) :
            (/\ i < j
             /\ ~HasInteracted(response.user, Results[i])
             /\ ~HasInteracted(response.user, Results[j]))
            => calculate_post_score(Results[j], response.user, 0)
                  <= calculate_post_score(Results[i], response.user, 0)
                     + ScoreUnit \div 2

\* C11: a response holds no post created more than FeedWindowDays days
\* before the request, whether the user has interacted with the post or not.
C11_NothingOlderThanWindow ==
    Answered =>
        \A i \in 1..Len(Results) :
            posts[Results[i]].created_at >= now - FeedWindowDays

\* A response leaves out a post the user liked that is a day too old, and
\* holds a post that is exactly FeedWindowDays days old.
C11_LikedPostAgedOut ==
    /\ Answered
    /\ \E p \in DOMAIN posts :
          /\ posts[p].created_at = now - FeedWindowDays - 1
          /\ <<response.user, p>> \in likes
          /\ ~posts[p].is_private
          /\ p \notin Range(Results)
    /\ \E i \in 1..Len(Results) : posts[Results[i]].created_at = now - FeedWindowDays

C13_CacheMissStaysMiss ==
    [][\A u \in Users, p \in DOMAIN posts, k \in InteractionTypes :
         (update_feed_for_interaction(u, p, k) /\ ~cache[u].present)
            => ~cache'[u].present]_vars

\* C14: after update_feed_for_interaction(u, p, k), a cached projection of p
\* whose viewed flag agreed with the row of (u, p) before the call agrees
\* with the row after it: it is marked viewed only when k is view.
C14_ProjectionFollowsRow ==
    [][\A u \in Users, p \in DOMAIN posts, k \in InteractionTypes :
         (update_feed_for_interaction(u, p, k) /\ cache[u].present) =>
            \A i \in 1..Len(cache[u].feed), e \in feed_entries :
                (/\ e.user = u /\ e.post = p
                 /\ cache[u].feed[i].post_id = p
                 /\ cache[u].feed[i].viewed = e.viewed)
                => /\ cache'[u].present
                   /\ Len(cache'[u].feed) = Len(cache[u].feed)
                   /\ cache'[u].feed[i].viewed = (e.viewed \/ k = "view")]_vars

\* C15: update_feed_for_interaction with a type that is none of the four, or
\* with the id of no user, returns an error and changes neither a row nor a
\* cache key.
C15_BadInteractionRejected ==
    [][\A u \in CacheKeys, p \in DOMAIN posts, k \in InteractionTypes \cup {OtherType} :
         (/\ u \notin Users \/ k \notin InteractionTypes
          /\ update_feed_for_interaction(u, p, k))
            => /\ outcome' = "error"
               /\ UNCHANGED <<feed_entries, cache>>]_vars

(***************************************************************************)
(* Properties of the cache, of pruning and of the rebuild.                 *)
(***************************************************************************)
\* C16: in every reachable state the cached feed of every user holds at most
\* CacheLimit projections, in descending order of score.
C16_CacheBoundedAndSorted ==
    \A k \in CacheKeys :
        /\ Len(cache[k].feed) <= CacheLimit
        /\ \A i, j \in 1..Len(cache[k].feed) :
              i < j => cache[k].feed[i].score >= cache[k].feed[j].score

Reported == "count" \in DOMAIN response

\* C17: a run of the cleanup command for N days without --dry-run leaves no
\* row created more than N days ago, and leaves every row created within
\* the last N days in the table as it was.
C17_CleanupRemovesOnlyOldRows ==
    [][\A d \in CleanupDays :
         cleanup_command(d, FALSE) =>
            /\ \A e \in feed_entries' : e.created_at >= now - d
            /\ \A e \in feed_entries : e.created_at >= now - d => e \in feed_entries'
            /\ feed_entries' \subseteq feed_entries]_vars

\* A run has deleted rows and kept a row that is exactly N days old.
C17_OldRowsGoneEdgeRowKept ==
    /\ Reported
    /\ ~response.dry_run
    /\ response.count > 0
    /\ \E e \in feed_entries : e.created_at = now - response.days

\* C18: a run of the cleanup command with --dry-run reports the number of
\* rows a run without it deletes, those created more than N days ago, and
\* changes neither the FeedEntry table nor a cache key.
C18_DryRunOnlyReports ==
    [][\A d \in CleanupDays :
         cleanup_command(d, TRUE) =>
            /\ response'.count =
                  Cardinality({e \in feed_entries : e.created_at < now - d})
            /\ UNCHANGED <<feed_entries, cache>>]_vars

\* A dry run has reported rows to delete; they are still in the table, and
\* the cache is in use.
C18_DryRunFoundRows ==
    /\ Reported
    /\ response.dry_run
    /\ response.count > 0
    /\ \E e \in feed_entries : e.created_at < now - response.days
    /\ \E k \in Users : cache[k].present

C20_RebuildKeepsGroupPostsInGroup ==
    [][\A u \in Users :
         refresh_build(u) =>
            \A e \in feed_entries' \ feed_entries :
                LET post == posts[e.post] IN
                (post.is_private /\ (post.university # NoOrg \/ post.company # NoOrg))
                => \/ e.user = post.author
                   \/ post.university # NoOrg /\ e.user \in UniversityMembers(post.university)
                   \/ post.company # NoOrg /\ e.user \in CompanyMembers(post.company)]_vars


(***************************************************************************)
(* Properties of the rebuild command and of failures.                      *)
(***************************************************************************)
\* C21: the rebuild command run with the id of no user exits non-zero
\* without starting a rebuild and without changing a FeedEntry row or a
\* cache key; and a run for one user exits 0 only when the rebuild of that
\* user completed.
C21_RebuildCommandReportsFailure ==
    [][/\ \A id \in UserIdOptions \ Users :
            rebuild_command(id) =>
               /\ response' # NoResponse
               /\ response'.exit # 0
               /\ command' = NoCommand
               /\ UNCHANGED <<feed_entries, cache>>
       /\ (command_finish /\ command.user_id # 0 /\ response'.exit = 0)
             => response'.returned = <<"ok">>]_vars

\* C22: a failure on one recipient stops neither the other recipients of the
\* batch nor the other batches nor the later users of a rebuild: an
\* execution of a batch ends only after its last recipient, it takes no
\* other batch out of the broker, and a rebuild of many users that fails for
\* one goes on with the next.
C22_FailureIsolatedPerRecipient ==
    [][/\ \A w \in Workers :
            (workers[w].pc # "idle" /\ workers'[w] = Idle)
               => Len(workers[w].todo) = 1
       /\ \A w \in Workers, t \in tasks :
            batch_start(w, t) => tasks' = tasks \ {t}
       /\ (command.pc = "refresh" /\ command.todo # <<>> /\ ~available
            /\ (command_refresh_delete \/ command_refresh_build))
             => /\ command'.pc = "refresh"
                /\ command'.todo = Tail(command.todo)]_vars

\* C23: a batch that fails because the database or the cache does not answer
\* before it wrote its rows is tried again: the execution that fails leaves
\* the batch in the broker for another attempt, so that the rows are written
\* once the database answers again.
C23_FailedBatchIsRetried ==
    [][\A w \in Workers, t \in tasks :
         (batch_start(w, t) /\ ~available /\ t.post \in DOMAIN posts)
            => t \in tasks']_vars

(***************************************************************************)
(* Properties of fan-out when the university of a post is deleted.         *)
(***************************************************************************)
\* C24: when the university of a post is gone by the time its recipients
\* are resolved, distribute_post_to_feeds returns without error and sends
\* the post to its author alone; and the delivery that follows gives the
\* author a FeedEntry row and returns no error.
C24_GroupGoneAuthorStillServed ==
    [][\A w \in Workers :
         /\ (distribute_resolve(w) /\ workers[w].row.university \notin universities \cup {NoOrg})
               => /\ outcome' = "ok"
                  /\ Pushed(tasks', workers[w].post) = {workers[w].row.author}
         /\ \A t \in tasks :
               (batch_start(w, t) /\ t.post \notin DOMAIN posts)
                  => /\ outcome' # "error"
                     /\ \A u \in t.users : HasEntry(feed_entries', u, t.post)]_vars

(***************************************************************************)
(* Properties of calculate_post_score.                                     *)
(***************************************************************************)
SameButCreation(p, q) ==
    /\ posts[p].author = posts[q].author
    /\ posts[p].university = posts[q].university
    /\ posts[p].company = posts[q].company
    /\ posts[p].is_private = posts[q].is_private
    /\ Engagement(p) = Engagement(q)

\* C25: of two posts that differ only in created_at, with equal engagement,
\* the newer scores at least as high as the older for every user, the
\* random factor left out; a post dated in the future gets the full 10
\* points of recency, and a post RecencyDays or more days old gets none.
C25_NewerScoresAtLeastAsHigh ==
    \A u \in Users, p, q \in DOMAIN posts :
        /\ (SameButCreation(p, q) /\ posts[p].created_at >= posts[q].created_at)
              => calculate_post_score(p, u, 0) >= calculate_post_score(q, u, 0)
        /\ posts[p].created_at > now => RecencyScore(posts[p]) = 10 * ScoreUnit
        /\ now - posts[p].created_at >= RecencyDays => RecencyScore(posts[p]) = 0

\* A user holds the rows of two posts with equal engagement, one dated a
\* day ahead and one RecencyDays days old, scored at the same time: the
\* first row's score is at least ten points above the second's, less the
\* random factor.
C25_FutureAndOldPostScored ==
    \E e1, e2 \in feed_entries :
        /\ e1.user = e2.user
        /\ e1.created_at = now /\ e2.created_at = now
        /\ SameButCreation(e1.post, e2.post)
        /\ posts[e1.post].created_at = now + 1
        /\ posts[e2.post].created_at = now - RecencyDays
        /\ e1.score >= e2.score + 10 * ScoreUnit - MaxJitter

(***************************************************************************)
(* Properties of re-execution and of the cache against the table.          *)
(***************************************************************************)
\* C26: every execution of distribute_post_to_feeds for a post, the first
\* or a later one, also after an execution that recorded the
\* CelebrityPostCache row and stopped, returns without error and leaves
\* the batches of the post's push recipients in the broker, and the post
\* has at most one CelebrityPostCache row.
C26_DistributeCanRunAgain ==
    [][\A p \in DOMAIN posts :
         distribute_post_to_feeds(p) =>
            /\ outcome' = "ok"
            /\ IF is_celebrity(posts[p])
               THEN \E active \in ActiveFollowers(Recipients(posts[p])) :
                       Batches(p, active) \subseteq tasks'
               ELSE Batches(p, Recipients(posts[p])) \subseteq tasks'
            /\ Cardinality({c \in celebrity_posts' : c[2] = p}) <= 1]_vars

\* C27: in every reachable state every projection in the cached feed of a
\* user has a FeedEntry row of that user for the same post with the same
\* score, also after a post is delivered again and after old rows are
\* pruned.
C27_ProjectionsHaveRows ==
    \A k \in Users :
        \A i \in 1..Len(cache[k].feed) :
            \E e \in feed_entries :
                /\ e.user = k
                /\ e.post = cache[k].feed[i].post_id
                /\ e.score = cache[k].feed[i].score

\* C28: in every reachable state the cached feed of a user holds at most
\* one projection of a post, also after the batch of a post ran again.
C28_OneProjectionPerPost ==
    \A k \in Users :
        \A i, j \in 1..Len(cache[k].feed) :
            cache[k].feed[i].post_id = cache[k].feed[j].post_id => i = j

\* C29: once the batches that deliver different posts to a user have all
\* finished, however their steps interleaved, the cached feed of the user,
\* when the posts are no more than CacheLimit, holds a projection of every
\* post the user got a row for.
C29_NoCacheUpdateLost ==
    (tasks = {} /\ \A w \in Workers : workers[w] = Idle) =>
        \A e \in feed_entries :
            \E i \in 1..Len(cache[e.user].feed) : cache[e.user].feed[i].post_id = e.post

(***************************************************************************)
(* Properties of the pages of home_feed.                                   *)
(***************************************************************************)
\* C30: for the same tables, the same order of the rows and the same
\* page_size, the posts the user has not interacted with in the response
\* for a page after the first are none of those of the page before it.
C30_NextPageHoldsOtherPosts ==
    [][\A r \in Requests, u \in Readers, a \in Algorithms :
         (r[1] > 1 /\ home_feed(u, r[1], r[2], a) /\ response'.status = 200) =>
            \E posts_with_stats \in order_by(base_query(u), a, u) :
               LET this == feed_page(u, r[1], r[2], posts_with_stats)
                   before == feed_page(u, r[1] - 1, r[2], posts_with_stats)
               IN /\ response'.results = this.interacted_posts \o this.regular_posts
                  /\ Range(this.regular_posts) \cap Range(before.regular_posts) = {}]_vars
=============================================================================
